---- MODULE Spec2Model ----
(***************************************************************************)
(* A model of genomedata/_util.py: the FASTA-like record iterator          *)
(* (LightIterator), the transparent gzip opener (maybe_gzip_open), the     *)
(* bigWig signature check (is_big_wig) and the accumulation helpers        *)
(* (init_num_obs, new_extrema).                                            *)
(*                                                                         *)
(* A string is a sequence of one-character strings, so that startswith,    *)
(* endswith, slicing and rstrip are computed character by character.       *)
(* An optional value (Python's None or a value) is a sequence of length    *)
(* at most one: None is <<>> and a value x is <<x>>.                       *)
(***************************************************************************)
EXTENDS Integers, Sequences, FiniteSets, TLC

VARIABLES
    component,   \* which of the components this run exercises
    \* LightIterator
    handle,      \* the lines the underlying handle yields, in order
    lineType,    \* the type of those lines: bytes, unicode or str
    pos,         \* how many of them iteration over the handle has consumed
    defline,     \* self._defline
    unemitted,   \* observation: self._defline was read from a marker line
                 \* and no record carrying it has been returned yet
    results,     \* observation: the outcome of every call of next(), in order
    \* maybe_gzip_open and the caller's with-statement
    filename,    \* the path given to maybe_gzip_open
    mode,        \* the open mode given to it
    content,     \* what the file at that path holds
    opened,      \* the handle the call returned, or None
    called,      \* observation: the function the caller opened it with
    pc,          \* where the caller is: start, opened, inside, ended, dropped,
                 \* failed
    exitVia,     \* how the with-block was left
    fdOpen,      \* the underlying file is open
    codecOpen,   \* the gzip layer's state is live
    releases,    \* observation: how often the underlying file was released
    closeErrors, \* observation: how many close calls raised
    extraCloses, \* observation: close calls made after the block was left
    \* is_big_wig
    wigFile,     \* the bytes of the file given to is_big_wig
    wigResult,   \* pending, or what the call did: True, False or the error raised
    \* init_num_obs
    num_obs,     \* the caller's count, threaded from call to call
    obsArg,      \* observation: the count the last call was given
    obsShape,    \* observation: continuous.shape of the last call
    obsOutcome,  \* observation: returned, or the error the last call raised
    obsCalls,    \* observation: calls made in the session
    \* new_extrema
    extFunc,     \* the reduction given to new_extrema: min or max
    extData,     \* the batch: rows along axis 0, one value per position
    extrema,     \* the current extremum array
    extResult,   \* None, or the array the call returned
    \* a session folding batches into a running minimum and maximum
    noneCompare, \* what comparing None with a number does on this platform
    foldMin,     \* the caller's running minimum, None before the first fold
    foldMax,     \* the caller's running maximum, None before the first fold
    foldBatch,   \* observation: the batch of the last fold
    foldMinCall, \* observation: what the last call with min did
    foldMaxCall, \* observation: what the last call with max did
    folds        \* observation: batches folded in the session

iterVars == <<handle, lineType, pos, defline, unemitted, results>>
openVars == <<filename, mode, content, opened, called, pc, exitVia, fdOpen, codecOpen,
             releases, closeErrors, extraCloses>>
wigVars  == <<wigFile, wigResult>>
obsVars  == <<num_obs, obsArg, obsShape, obsOutcome, obsCalls>>
extVars  == <<extFunc, extData, extrema, extResult>>
foldVars == <<noneCompare, foldMin, foldMax, foldBatch, foldMinCall, foldMaxCall, folds>>
vars     == <<component, iterVars, openVars, wigVars, obsVars, extVars, foldVars>>

(***************************************************************************)
(* Bounds of the model.                                                    *)
(***************************************************************************)
MaxLines == 4        \* lines in the stream behind a LightIterator
MaxCalls == 5        \* calls of LightIterator.next on one iterator
MaxNameLen == 5      \* characters in a path given to maybe_gzip_open
MaxExtraCloses == 2  \* close calls after the with-block was left
MaxFileLen == 5      \* bytes in a file given to is_big_wig
MaxDim == 3          \* each dimension of an array given to init_num_obs
MaxObsCalls == 3     \* calls of init_num_obs in one session
MaxPositions == 2    \* positions in an extremum array
MaxRows == 2         \* rows in a batch given to new_extrema
MaxFolds == 3        \* batches folded in one session

(***************************************************************************)
(* Values and strings.                                                     *)
(***************************************************************************)
None == <<>>
Some(x) == <<x>>

NL == "\n"
VT == ""       \* the vertical tab, chr(11)
FF == "\f"       \* the form feed, chr(12)
FS == ""       \* the separators chr(28) to chr(31)
GS == ""
RS == ""
US == ""
NEL == ""      \* the next line character, chr(133)
NBSP == " "     \* the no-break space, chr(160)

\* A character above chr(255) cannot stand in a string of this module and
\* is written as the name of its code point.
MVS == "U+180E"      \* the Mongolian vowel separator
EMSP == "U+2003"     \* the em space

\* The types a line of the handle can have: a byte string (Python 2 str), a
\* Python 2 unicode string, or a Python 3 str.
LineTypes == {"bytes", "unicode", "str"}

\* The whitespace above chr(255) of a Python 3 str.
WideWhitespace ==
    {"U+1680",
     "U+2000", "U+2001", "U+2002", EMSP, "U+2004", "U+2005", "U+2006",
     "U+2007", "U+2008", "U+2009", "U+200A",
     "U+2028", "U+2029", "U+202F", "U+205F", "U+3000"}

\* What str.rstrip() removes: from a byte string the characters 9 to 13 and
\* the space; from a Python 3 str also the characters 28 to 31, 133, 160 and
\* the whitespace above chr(255); from a Python 2 unicode string, whose
\* character database is older, U+180E as well.
ByteWhitespace == {" ", "\t", NL, VT, FF, "\r"}
TextWhitespace == ByteWhitespace \cup {FS, GS, RS, US, NEL, NBSP} \cup WideWhitespace
Whitespace ==
    IF lineType = "bytes" THEN ByteWhitespace
    ELSE IF lineType = "unicode" THEN TextWhitespace \cup {MVS}
    ELSE TextWhitespace

\* The sequences over S of length at most n.
SeqsUpTo(S, n) == UNION {[1..k -> S] : k \in 0..n}

\* rstrip taking off a final newline and nothing else.
rstrip_newline_only(s) ==
    IF s # <<>> /\ s[Len(s)] = NL THEN SubSeq(s, 1, Len(s) - 1) ELSE s

\* str.rstrip(): the string without its trailing whitespace.
RECURSIVE rstrip(_)
rstrip(s) ==
    IF s = <<>> THEN <<>>
    ELSE IF s[Len(s)] \in Whitespace THEN rstrip(SubSeq(s, 1, Len(s) - 1))
    ELSE s

\* str.startswith(prefix)
startswith(s, prefix) ==
    /\ Len(s) >= Len(prefix)
    /\ SubSeq(s, 1, Len(prefix)) = prefix

\* ''.join(lines)
RECURSIVE join(_)
join(lines) == IF lines = <<>> THEN <<>> ELSE Head(lines) \o join(Tail(lines))

\* Python's truth value of an optional string: None and '' are false.
Truthy(opt) == opt # None /\ opt[1] # <<>>

(***************************************************************************)
(* LightIterator                                                           *)
(***************************************************************************)

\* The lines a handle may yield: the empty string (an iterable of already
\* stripped lines yields it for a blank line), a blank line of a file,
\* marker lines with different labels, with an empty label and with
\* whitespace around the label, and body lines with and without
\* surrounding whitespace and newline; a marker line and a body line end
\* with characters that are whitespace in some line types only, followed
\* by a vertical tab and a form feed.
SampleLines ==
    { <<>>,
      <<NL>>,
      <<">", "a", NL>>,
      <<">", "b", MVS, FS, VT, NL>>,
      <<">", NL>>,
      <<">", " ", "a", " ", NL>>,
      <<"a", NL>>,
      <<" ", "b", " ", NL>>,
      <<"b", EMSP, US, FF, NL>> }

Streams == SeqsUpTo(SampleLines, MaxLines)

\* The for loop of next(): from line p on, with self._defline = self_defline,
\* the local defline_old and the local list lines. The result says how the
\* loop was left ("end": the handle ran out, "break", or "raise": the
\* StopIteration raised inside the loop), how many lines are consumed and the
\* values of self._defline, defline_old and lines at that point.
RECURSIVE Loop(_, _, _, _, _, _)
Loop(h, p, self_defline, defline_old, lines, fresh) ==
    IF p >= Len(h)
    THEN [exit |-> "end", pos |-> p, defline |-> self_defline,
          defline_old |-> defline_old, lines |-> lines, fresh |-> fresh,
          marker |-> FALSE]
    ELSE LET line == h[p + 1] IN
         IF line = <<>>
         THEN IF ~Truthy(defline_old) /\ lines = <<>>
              THEN [exit |-> "raise", pos |-> p + 1, defline |-> self_defline,
                    defline_old |-> defline_old, lines |-> lines,
                    fresh |-> fresh, marker |-> FALSE]
              ELSE IF Truthy(defline_old)
              THEN [exit |-> "break", pos |-> p + 1, defline |-> None,
                    defline_old |-> defline_old, lines |-> lines,
                    fresh |-> fresh, marker |-> FALSE]
              ELSE Loop(h, p + 1, self_defline, defline_old, lines, fresh)
         ELSE IF startswith(line, <<">">>)
         THEN LET d == Some(rstrip(Tail(line))) IN
              IF Truthy(defline_old) \/ lines # <<>>
              THEN [exit |-> "break", pos |-> p + 1, defline |-> d,
                    defline_old |-> defline_old, lines |-> lines,
                    fresh |-> fresh, marker |-> TRUE]
              ELSE Loop(h, p + 1, d, d, lines, TRUE)
         ELSE Loop(h, p + 1, self_defline, defline_old,
                   Append(lines, rstrip(line)), fresh)

\* Outcome with the label check and the label taken from self._defline
\* instead of defline_old.
OutcomeFromSelfDefline(l) ==
    IF l.exit = "raise" \/ l.lines = <<>>
    THEN [kind |-> "StopIteration", label |-> <<>>, body |-> <<>>]
    ELSE IF l.defline = None
    THEN [kind |-> "ValueError", label |-> <<>>, body |-> <<>>]
    ELSE [kind |-> "record", label |-> l.defline[1], body |-> join(l.lines)]

\* Outcome with the two checks after the loop in the other order: the label
\* is looked at before the collected lines.
OutcomeLabelCheckFirst(l) ==
    IF l.exit = "raise"
    THEN [kind |-> "StopIteration", label |-> <<>>, body |-> <<>>]
    ELSE IF l.defline_old = None
    THEN [kind |-> "ValueError", label |-> <<>>, body |-> <<>>]
    ELSE IF l.lines = <<>>
    THEN [kind |-> "StopIteration", label |-> <<>>, body |-> <<>>]
    ELSE [kind |-> "record", label |-> l.defline_old[1], body |-> join(l.lines)]

\* What next() does after its loop: the outcome of the call.
Outcome(l) ==
    IF l.exit = "raise" \/ l.lines = <<>>
    THEN [kind |-> "StopIteration", label |-> <<>>, body |-> <<>>]
    ELSE IF l.defline_old = None
    THEN [kind |-> "ValueError", label |-> <<>>, body |-> <<>>]
    ELSE [kind |-> "record", label |-> l.defline_old[1], body |-> join(l.lines)]

\* LightIterator.__init__
IterInit ==
    /\ handle \in Streams
    /\ lineType \in LineTypes
    /\ pos = 0
    /\ defline = None
    /\ unemitted = FALSE
    /\ results = <<>>

\* One call of LightIterator.next().
LightIteratorNext ==
    /\ component = "LightIterator"
    /\ Len(results) < MaxCalls
    /\ LET l == Loop(handle, pos, defline, defline, <<>>, unemitted)
           o == Outcome(l)
       IN /\ pos' = l.pos
          /\ defline' = l.defline
          /\ unemitted' = IF l.marker THEN TRUE
                          ELSE IF l.defline = None \/ o.kind = "record" THEN FALSE
                          ELSE l.fresh
          /\ results' = Append(results,
                 [kind |-> o.kind, label |-> o.label, body |-> o.body,
                  exit |-> l.exit, pending |-> l.defline_old,
                  fresh |-> l.fresh, lines |-> l.lines,
                  from |-> pos, to |-> l.pos])
    /\ UNCHANGED <<handle, lineType, component, openVars, wigVars, obsVars, extVars, foldVars>>

(***************************************************************************)
(* gzip_open, maybe_gzip_open and the with-statement of their caller       *)
(***************************************************************************)
EXT_GZ == <<"g", "z">>
extsep == "."
SUFFIX_GZ == <<extsep>> \o EXT_GZ

\* str.endswith(suffix)
endswith(s, suffix) ==
    /\ Len(s) >= Len(suffix)
    /\ SubSeq(s, Len(s) - Len(suffix) + 1, Len(s)) = suffix

\* The characters of the paths tried, and the paths: every string over them
\* up to MaxNameLen, and the names the interface description gives.
NameChars == {"g", "z", "G", "Z", extsep}
ExampleNames ==
    { <<"x", ".", "g", "z">>,
      <<"x", ".", "G", "Z">>,
      <<"x", ".", "g", "z", ".", "t", "x", "t">>,
      <<"x", "g", "z">> }
Filenames == SeqsUpTo(NameChars, MaxNameLen) \cup ExampleNames
Modes == {"r", "w"}
\* What is at the path: nothing, a file without the gzip magic (an empty file
\* is one), a file of gzip data, or a directory.
Contents == {"missing", "plain", "gzipped", "directory"}

\* What can be at a path: nothing is ever at the empty path, and "." and ".."
\* are directories.
ContentsAt(name) ==
    IF name = <<>> THEN {"missing"}
    ELSE IF name \in {<<extsep>>, <<extsep, extsep>>} THEN {"directory"}
    ELSE Contents

\* A handle: what it reads through (layer) and the object the call returns,
\* which carries the context-manager protocol (manager): a
\* contextlib.closing around the GzipFile, or the file itself.

\* gzip_open: contextlib.closing around the GzipFile.
gzip_open(name, m) ==
    [layer |-> "gzip", manager |-> "closing", name |-> name, mode |-> m]

\* The builtin open: a file object, its own context manager.
open(name, m) == [layer |-> "raw", manager |-> "file", name |-> name, mode |-> m]

\* maybe_gzip_open testing for EXT_GZ without the extension separator.
maybe_gzip_open_ext_only(name, m) ==
    IF endswith(name, EXT_GZ) THEN gzip_open(name, m) ELSE open(name, m)

maybe_gzip_open(name, m) ==
    IF endswith(name, SUFFIX_GZ) THEN gzip_open(name, m) ELSE open(name, m)

\* Opening raises IOError in both branches for the empty path, for a
\* directory in every mode, and for reading a path that does not exist;
\* opening a missing path for writing creates the file.
OpenFails(name, c, m) ==
    \/ name = <<>>
    \/ c = "directory"
    \/ c = "missing" /\ m = "r"

\* The file at the path once it has been opened: mode "w" creates or
\* truncates it, leaving an empty file.
ContentOnOpen(c, m) == IF m = "w" THEN "plain" ELSE c

\* The file at the path once close() has run on the resource state st of
\* handle h: closing a GzipFile opened for writing leaves a gzip stream.
ContentOnClose(h, st, c) ==
    IF st.fdOpen /\ h.layer = "gzip" /\ h.mode = "w" THEN "gzipped" ELSE c

\* close() of the object behind a handle, on the resource state st:
\* GzipFile.close returns at once when its file object is gone, and
\* file.close on a closed file does nothing; otherwise the gzip state and the
\* underlying file are released.
Close(st) ==
    IF ~st.fdOpen THEN st
    ELSE [st EXCEPT !.fdOpen = FALSE, !.codecOpen = FALSE,
                    !.releases = st.releases + 1]

\* __exit__ of a handle: closing.__exit__ calls close() of the wrapped
\* GzipFile, file.__exit__ calls its own close().
HandleExit(h, st) == Close(st)

\* close() called on the handle itself: a file closes; contextlib.closing
\* has no close(), so the call raises AttributeError and releases nothing.
HandleClose(h, st) ==
    IF h.manager = "file" THEN Close(st)
    ELSE [st EXCEPT !.closeErrors = st.closeErrors + 1]

Resource ==
    [fdOpen |-> fdOpen, codecOpen |-> codecOpen, releases |-> releases,
     closeErrors |-> closeErrors]

SetResource(st) ==
    /\ fdOpen' = st.fdOpen
    /\ codecOpen' = st.codecOpen
    /\ releases' = st.releases
    /\ closeErrors' = st.closeErrors

OpenInit ==
    /\ filename \in Filenames
    /\ mode \in Modes
    /\ content \in ContentsAt(filename)
    /\ opened = None
    /\ called = "none"
    /\ pc = "start"
    /\ exitVia = "none"
    /\ fdOpen = FALSE /\ codecOpen = FALSE
    /\ releases = 0 /\ closeErrors = 0 /\ extraCloses = 0

\* The caller evaluates h: the call raises, or returns h with the file open.
Opening(h) ==
    /\ pc = "start"
    /\ IF OpenFails(filename, content, mode)
       THEN /\ pc' = "failed"
            /\ UNCHANGED <<opened, fdOpen, codecOpen, content>>
       ELSE /\ opened' = Some(h)
            /\ fdOpen' = TRUE
            /\ codecOpen' = (h.layer = "gzip")
            /\ content' = ContentOnOpen(content, mode)
            /\ pc' = "opened"
    /\ UNCHANGED <<filename, mode, exitVia, releases, closeErrors, extraCloses>>
    /\ UNCHANGED <<component, iterVars, wigVars, obsVars, extVars, foldVars>>

\* The caller evaluates maybe_gzip_open(filename, mode).
MaybeGzipOpen ==
    /\ component = "maybe_gzip_open"
    /\ called' = "maybe_gzip_open"
    /\ Opening(maybe_gzip_open(filename, mode))

\* The caller evaluates gzip_open(filename, mode), whatever the path is.
GzipOpen ==
    /\ component = "maybe_gzip_open"
    /\ called' = "gzip_open"
    /\ Opening(gzip_open(filename, mode))

\* The with-statement takes the handle: closing.__enter__ gives the
\* GzipFile to the block, file.__enter__ the file.
EnterScope ==
    /\ component = "maybe_gzip_open"
    /\ pc = "opened"
    /\ pc' = "inside"
    /\ UNCHANGED <<filename, mode, content, opened, called, exitVia, fdOpen,
                   codecOpen, releases, closeErrors, extraCloses>>
    /\ UNCHANGED <<component, iterVars, wigVars, obsVars, extVars, foldVars>>

\* The block is left, by running to its end, by a return or by an exception
\* (reading a file that is not gzip data through the gzip layer is one):
\* the with-statement calls the handle's __exit__ on every one of them.
ExitScope(via) ==
    /\ component = "maybe_gzip_open"
    /\ pc = "inside"
    /\ pc' = "ended"
    /\ exitVia' = via
    /\ SetResource(HandleExit(opened[1], Resource))
    /\ content' = ContentOnClose(opened[1], Resource, content)
    /\ UNCHANGED <<filename, mode, opened, called, extraCloses>>
    /\ UNCHANGED <<component, iterVars, wigVars, obsVars, extVars, foldVars>>

\* The caller lets go of the handle without a with-statement and without
\* closing it. Nothing in gzip_open or maybe_gzip_open releases it then:
\* the file is closed when the garbage collector finalizes the object, at
\* once where objects are reference counted and at no fixed time elsewhere.
DropHandle ==
    /\ component = "maybe_gzip_open"
    /\ pc = "opened"
    /\ pc' = "dropped"
    /\ \E finalized \in BOOLEAN :
          IF finalized
          THEN /\ SetResource(Close(Resource))
               /\ content' = ContentOnClose(opened[1], Resource, content)
          ELSE UNCHANGED <<fdOpen, codecOpen, releases, closeErrors, content>>
    /\ UNCHANGED <<filename, mode, opened, called, exitVia, extraCloses>>
    /\ UNCHANGED <<component, iterVars, wigVars, obsVars, extVars, foldVars>>

\* After the block the caller calls close() on the handle the call returned.
CloseHandle ==
    /\ component = "maybe_gzip_open"
    /\ pc = "ended"
    /\ extraCloses < MaxExtraCloses
    /\ extraCloses' = extraCloses + 1
    /\ SetResource(HandleClose(opened[1], Resource))
    /\ content' = IF opened[1].manager = "file"
                  THEN ContentOnClose(opened[1], Resource, content)
                  ELSE content
    /\ UNCHANGED <<filename, mode, opened, called, pc, exitVia>>
    /\ UNCHANGED <<component, iterVars, wigVars, obsVars, extVars, foldVars>>

\* After the block the caller closes once more the object the with-statement
\* bound (the GzipFile or the file).
CloseAgain ==
    /\ component = "maybe_gzip_open"
    /\ pc = "ended"
    /\ extraCloses < MaxExtraCloses
    /\ extraCloses' = extraCloses + 1
    /\ SetResource(Close(Resource))
    /\ content' = ContentOnClose(opened[1], Resource, content)
    /\ UNCHANGED <<filename, mode, opened, called, pc, exitVia>>
    /\ UNCHANGED <<component, iterVars, wigVars, obsVars, extVars, foldVars>>

(***************************************************************************)
(* is_big_wig                                                              *)
(***************************************************************************)
BIG_WIG_SIGNATURE_BYTE_SIZE == 4

\* 0x888FFC26. TLC's integers are signed 32-bit and the value is above
\* 2^31 - 1, so an unsigned 32-bit integer is the pair of its 16-bit halves
\* <<high, low>>: 0x888F = 34959 and 0xFC26 = 64550.
BIG_WIG_SIGNATURE == <<34959, 64550>>

\* The byte values tried: 0x00 and the four bytes of the signature.
SampleBytes == {0, 38, 136, 143, 252}
WigFiles == SeqsUpTo(SampleBytes, MaxFileLen)

\* file.read(n): the next n bytes, or as many as there are.
read(bytes, n) == SubSeq(bytes, 1, IF Len(bytes) < n THEN Len(bytes) ELSE n)

\* struct.unpack("<L", s)[0] and struct.unpack(">L", s)[0]: struct.error
\* unless s holds exactly four bytes.
unpack_little_endian(sig) ==
    IF Len(sig) # 4 THEN [error |-> "struct.error", value |-> <<0, 0>>]
    ELSE [error |-> "", value |-> <<sig[4] * 256 + sig[3], sig[2] * 256 + sig[1]>>]

unpack_big_endian(sig) ==
    IF Len(sig) # 4 THEN [error |-> "struct.error", value |-> <<0, 0>>]
    ELSE [error |-> "", value |-> <<sig[1] * 256 + sig[2], sig[3] * 256 + sig[4]>>]

\* is_big_wig comparing the little-endian reading only.
is_big_wig_little_endian_only(bytes) ==
    LET signature_string == read(bytes, BIG_WIG_SIGNATURE_BYTE_SIZE)
        little_endian_signature == unpack_little_endian(signature_string)
    IN IF little_endian_signature.error # "" THEN little_endian_signature.error
       ELSE IF little_endian_signature.value = BIG_WIG_SIGNATURE THEN "True"
       ELSE "False"

is_big_wig(bytes) ==
    LET signature_string == read(bytes, BIG_WIG_SIGNATURE_BYTE_SIZE)
        little_endian_signature == unpack_little_endian(signature_string)
        big_endian_signature == unpack_big_endian(signature_string)
    IN IF little_endian_signature.error # "" THEN little_endian_signature.error
       ELSE IF big_endian_signature.error # "" THEN big_endian_signature.error
       ELSE IF \/ little_endian_signature.value = BIG_WIG_SIGNATURE
               \/ big_endian_signature.value = BIG_WIG_SIGNATURE
       THEN "True"
       ELSE "False"

WigInit == wigFile \in WigFiles /\ wigResult = "pending"

IsBigWig ==
    /\ component = "is_big_wig"
    /\ wigResult = "pending"
    /\ wigResult' = is_big_wig(wigFile)
    /\ UNCHANGED <<wigFile, component, iterVars, openVars, obsVars, extVars, foldVars>>

(***************************************************************************)
(* init_num_obs                                                            *)
(***************************************************************************)

\* init_num_obs without its assert.
init_num_obs_unchecked(n, shape) == [raised |-> "", value |-> Some(shape[2])]

\* init_num_obs(num_obs, continuous), continuous.shape = shape: the assert
\* fails when num_obs is a count other than shape[1].
init_num_obs(n, shape) ==
    LET curr_num_obs == shape[2] IN
    IF n = None \/ n[1] = curr_num_obs
    THEN [raised |-> "", value |-> Some(curr_num_obs)]
    ELSE [raised |-> "AssertionError", value |-> None]

ObsShapes == (0..MaxDim) \X (0..MaxDim)

ObsInit ==
    /\ num_obs = None /\ obsArg = None /\ obsShape = <<0, 0>>
    /\ obsOutcome = "none" /\ obsCalls = 0

\* num_obs = init_num_obs(num_obs, continuous): when the call raises, the
\* assignment does not happen and the caller's count stays.
InitNumObs ==
    /\ component = "init_num_obs"
    /\ obsCalls < MaxObsCalls
    /\ \E shape \in ObsShapes :
          LET r == init_num_obs(num_obs, shape) IN
          /\ obsArg' = num_obs
          /\ obsShape' = shape
          /\ obsOutcome' = IF r.raised = "" THEN "returned" ELSE r.raised
          /\ num_obs' = IF r.raised = "" THEN r.value ELSE num_obs
    /\ obsCalls' = obsCalls + 1
    /\ UNCHANGED <<component, iterVars, openVars, wigVars, extVars, foldVars>>

(***************************************************************************)
(* new_extrema                                                             *)
(***************************************************************************)
Values == {0, 1, 2}

\* min(a, b) or max(a, b)
Pick(func, a, b) ==
    IF func = "min" THEN (IF a <= b THEN a ELSE b) ELSE (IF a >= b THEN a ELSE b)

\* func over a non-empty sequence of numbers
RECURSIVE Reduce(_, _)
Reduce(func, xs) ==
    IF Len(xs) = 1 THEN xs[1] ELSE Pick(func, xs[1], Reduce(func, Tail(xs)))

\* func(rows, 0) for numpy's amin and amax: the reduction along axis 0 of
\* rows of equal length, one value per position.
AlongAxis0(func, rows) ==
    [i \in 1..Len(rows[1]) |-> Reduce(func, [r \in 1..Len(rows) |-> rows[r][i]])]

\* new_extrema returning the batch's own reduction, the current extremum
\* dropped.
new_extrema_of_batch_only(func, data, ext) == AlongAxis0(func, data)

new_extrema(func, data, ext) ==
    LET curr_extrema == AlongAxis0(func, data)
    IN AlongAxis0(func, <<ext, curr_extrema>>)

ExtInit ==
    /\ extFunc \in {"min", "max"}
    /\ \E n \in 1..MaxPositions : \E rows \in 1..MaxRows :
          /\ extData \in [1..rows -> [1..n -> Values]]
          /\ extrema \in [1..n -> Values]
    /\ extResult = None

NewExtrema ==
    /\ component = "new_extrema"
    /\ extResult = None
    /\ extResult' = Some(new_extrema(extFunc, extData, extrema))
    /\ UNCHANGED <<extFunc, extData, extrema>>
    /\ UNCHANGED <<component, iterVars, openVars, wigVars, obsVars, foldVars>>

(***************************************************************************)
(* A session of new_extrema calls: the caller keeps a running minimum and  *)
(* a running maximum, both None at first, and folds every batch into both. *)
(***************************************************************************)

\* func([extrema, curr_extrema], 0) with extrema = None. The list holds None
\* beside numbers, and what the reduction does with it depends on the
\* platform: where None cannot be compared with a number (Python 3) the call
\* raises (TypeError, or ValueError while the list is made an array); where
\* None is ordered below every number (Python 2) max gives the batch's
\* reduction and min gives None at every position, written None here.
NoneCompares == {"raises", "least"}

new_extrema_from_none(func, data, cmp) ==
    IF cmp = "raises" THEN [raised |-> TRUE, value |-> None]
    ELSE [raised |-> FALSE,
          value |-> IF func = "min" THEN None ELSE Some(AlongAxis0(func, data))]

\* new_extrema(func, data, extrema) with extrema None or an array.
new_extrema_call(func, data, ext, cmp) ==
    IF ext = None THEN new_extrema_from_none(func, data, cmp)
    ELSE [raised |-> FALSE, value |-> Some(new_extrema(func, data, ext[1]))]

FoldInit ==
    /\ noneCompare \in NoneCompares
    /\ foldMin = None /\ foldMax = None
    /\ foldBatch = <<>>
    /\ foldMinCall = "none" /\ foldMaxCall = "none"
    /\ folds = 0

\* mins = new_extrema(min, batch, mins); maxs = new_extrema(max, batch, maxs):
\* a call that raises assigns nothing and ends the session, the second call
\* not made.
Fold ==
    /\ component = "fold"
    /\ folds < MaxFolds
    /\ foldMinCall # "raised" /\ foldMaxCall # "raised"
    /\ \E n \in 1..MaxPositions : \E rows \in 1..MaxRows :
       \E batch \in [1..rows -> [1..n -> Values]] :
          /\ IF foldBatch = <<>> THEN TRUE ELSE Len(foldBatch[1]) = n
          /\ LET lo == new_extrema_call("min", batch, foldMin, noneCompare)
                 hi == new_extrema_call("max", batch, foldMax, noneCompare)
             IN IF lo.raised
                THEN /\ foldMinCall' = "raised" /\ foldMaxCall' = "not called"
                     /\ UNCHANGED <<foldMin, foldMax>>
                ELSE /\ foldMinCall' = "returned"
                     /\ foldMin' = lo.value
                     /\ IF hi.raised
                        THEN foldMaxCall' = "raised" /\ UNCHANGED foldMax
                        ELSE foldMaxCall' = "returned" /\ foldMax' = hi.value
          /\ foldBatch' = batch
    /\ folds' = folds + 1
    /\ UNCHANGED <<noneCompare, component, iterVars, openVars, wigVars, obsVars, extVars>>

(***************************************************************************)
(* The specifications: one per component, the others standing idle.        *)
(***************************************************************************)
IterIdle ==
    /\ handle = <<>> /\ lineType = "bytes" /\ pos = 0 /\ defline = None /\ unemitted = FALSE
    /\ results = <<>>

OpenIdle ==
    /\ filename = <<>> /\ mode = "r" /\ content = "plain" /\ opened = None
    /\ called = "none"
    /\ pc = "idle" /\ exitVia = "none" /\ fdOpen = FALSE /\ codecOpen = FALSE
    /\ releases = 0 /\ closeErrors = 0 /\ extraCloses = 0

WigIdle == wigFile = <<>> /\ wigResult = "idle"

ObsIdle ==
    /\ num_obs = None /\ obsArg = None /\ obsShape = <<0, 0>>
    /\ obsOutcome = "idle" /\ obsCalls = 0

ExtIdle == extFunc = "idle" /\ extData = <<>> /\ extrema = <<>> /\ extResult = None

FoldIdle ==
    /\ noneCompare = "idle" /\ foldMin = None /\ foldMax = None
    /\ foldBatch = <<>> /\ foldMinCall = "idle" /\ foldMaxCall = "idle"
    /\ folds = 0

InitIter ==
    /\ component = "LightIterator"
    /\ IterInit /\ OpenIdle /\ WigIdle /\ ObsIdle /\ ExtIdle /\ FoldIdle
NextIter == LightIteratorNext
SpecIter == InitIter /\ [][NextIter]_vars

InitOpen ==
    /\ component = "maybe_gzip_open"
    /\ IterIdle /\ OpenInit /\ WigIdle /\ ObsIdle /\ ExtIdle /\ FoldIdle
ExitScopeAnyWay == \E via \in {"normal", "return", "raise"} : ExitScope(via)
NextOpen ==
    \/ MaybeGzipOpen \/ GzipOpen \/ EnterScope \/ ExitScopeAnyWay
    \/ DropHandle \/ CloseHandle \/ CloseAgain
SpecOpen == InitOpen /\ [][NextOpen]_vars

InitWig ==
    /\ component = "is_big_wig"
    /\ IterIdle /\ OpenIdle /\ WigInit /\ ObsIdle /\ ExtIdle /\ FoldIdle
NextWig == IsBigWig
SpecWig == InitWig /\ [][NextWig]_vars

InitObs ==
    /\ component = "init_num_obs"
    /\ IterIdle /\ OpenIdle /\ WigIdle /\ ObsInit /\ ExtIdle /\ FoldIdle
NextObs == InitNumObs
SpecObs == InitObs /\ [][NextObs]_vars

InitExt ==
    /\ component = "new_extrema"
    /\ IterIdle /\ OpenIdle /\ WigIdle /\ ObsIdle /\ ExtInit /\ FoldIdle
NextExt == NewExtrema
SpecExt == InitExt /\ [][NextExt]_vars

InitFold ==
    /\ component = "fold"
    /\ IterIdle /\ OpenIdle /\ WigIdle /\ ObsIdle /\ ExtIdle /\ FoldInit
NextFold == Fold
SpecFold == InitFold /\ [][NextFold]_vars

Init == InitIter \/ InitOpen \/ InitWig \/ InitObs \/ InitExt \/ InitFold
Next == NextIter \/ NextOpen \/ NextWig \/ NextObs \/ NextExt \/ NextFold
Spec == Init /\ [][Next]_vars

(***************************************************************************)
(* Vocabulary of the claims about LightIterator.                           *)
(***************************************************************************)

\* A marker line starts with the sigil; a body line is any other non-empty line.
IsMarker(line) == line # <<>> /\ Head(line) = ">"
IsBody(line) == line # <<>> /\ Head(line) # ">"

\* Every non-marker line comes after some marker line.
WellFormed(h) ==
    \A i \in 1..Len(h) : ~IsMarker(h[i]) => \E j \in 1..(i - 1) : IsMarker(h[j])

\* The string without its leading whitespace, and without both.
RECURSIVE lstrip(_)
lstrip(s) ==
    IF s = <<>> THEN <<>>
    ELSE IF Head(s) \in Whitespace THEN lstrip(Tail(s))
    ELSE s

strip(s) == lstrip(rstrip(s))

\* Call k is the first one that signalled end-of-sequence.
FirstStop(k) ==
    /\ k \in 1..Len(results)
    /\ results[k].kind = "StopIteration"
    /\ \A i \in 1..(k - 1) : results[i].kind # "StopIteration"

(***************************************************************************)
(* C1: for a well-formed stream with N marker lines, the calls of next()   *)
(* before the first StopIteration yield exactly N records, each with a     *)
(* non-empty label, the i-th carrying the label of the i-th marker line.   *)
(* The code breaks this: a marker line with no body line after it raises   *)
(* StopIteration and yields no record.                                     *)
(***************************************************************************)
C1_OneRecordPerMarker ==
    \A k \in 1..Len(results) :
        (WellFormed(handle) /\ FirstStop(k)) =>
            LET markers == SelectSeq(handle, IsMarker) IN
            /\ k - 1 = Len(markers)
            /\ \A i \in 1..(k - 1) :
                  /\ results[i].kind = "record"
                  /\ results[i].label # <<>>
                  /\ results[i].label = strip(Tail(markers[i]))

(***************************************************************************)
(* C2: when the first line of the stream is a body line, the first call    *)
(* of next() raises ValueError, with or without a marker line later; and   *)
(* no call returns a record without a defined label.                       *)
(***************************************************************************)
C2_BodyBeforeMarkerIsValueError ==
    /\ (handle # <<>> /\ IsBody(handle[1]) /\ results # <<>>) =>
           results[1].kind = "ValueError"
    /\ \A i \in 1..Len(results) :
           results[i].kind = "record" =>
               /\ results[i].pending # None
               /\ results[i].label = results[i].pending[1]

C2_Witness ==
    /\ Len(handle) >= 2 /\ IsBody(handle[1]) /\ IsMarker(handle[2])
    /\ results # <<>> /\ results[1].kind = "ValueError"

(***************************************************************************)
(* C3: once a call of next() has raised StopIteration, every later call    *)
(* on the same iterator raises StopIteration too. The code breaks this:    *)
(* the StopIteration raised for a marker line without body lines leaves    *)
(* the rest of the stream to the next call.                                *)
(***************************************************************************)
C3_ExhaustedIsAbsorbing ==
    \A i \in 1..Len(results) : \A j \in (i + 1)..Len(results) :
        results[i].kind = "StopIteration" => results[j].kind = "StopIteration"

(***************************************************************************)
(* C4: a call of next() that reaches the end of the stream while a label   *)
(* is pending whose record was not returned yet returns the record         *)
(* (pending label, join of the accumulated lines), whatever the number of  *)
(* accumulated lines. The code breaks this when no line was accumulated.   *)
(***************************************************************************)
C4_FinalRecordAtEndOfStream ==
    \A i \in 1..Len(results) :
        (results[i].exit = "end" /\ results[i].pending # None /\ results[i].fresh) =>
            /\ results[i].kind = "record"
            /\ results[i].label = results[i].pending[1]
            /\ results[i].body = join(results[i].lines)

(***************************************************************************)
(* C5: maybe_gzip_open returns a handle through the gzip layer exactly     *)
(* when the path's final extension, the text after its last extension      *)
(* separator, is "gz" in this very case; the file's content and the open   *)
(* mode play no part. "x.gz" is compressed, "x.GZ", "x.gz.txt" and "xgz"   *)
(* are opened raw.                                                         *)
(***************************************************************************)
HasExtension(name) == \E i \in 1..Len(name) : name[i] = extsep

FinalExtension(name) ==
    LET last == CHOOSE i \in 1..Len(name) :
                    /\ name[i] = extsep
                    /\ \A j \in (i + 1)..Len(name) : name[j] # extsep
    IN SubSeq(name, last + 1, Len(name))

IsGzipPath(name) == HasExtension(name) /\ FinalExtension(name) = <<"g", "z">>

C5_FinalExtensionDecidesGzip ==
    /\ called = "maybe_gzip_open" /\ opened # None =>
          (opened[1].layer = "gzip" <=> IsGzipPath(filename))
    /\ \A m \in Modes :
          /\ maybe_gzip_open(<<"x", ".", "g", "z">>, m).layer = "gzip"
          /\ maybe_gzip_open(<<"x", ".", "G", "Z">>, m).layer = "raw"
          /\ maybe_gzip_open(<<"x", ".", "g", "z", ".", "t", "x", "t">>, m).layer = "raw"
          /\ maybe_gzip_open(<<"x", "g", "z">>, m).layer = "raw"

C5_Witness ==
    /\ called = "maybe_gzip_open"
    /\ opened # None
    /\ opened[1].layer = "gzip"
    /\ content = "plain"
    /\ mode = "w"
    /\ Len(filename) > Len(SUFFIX_GZ)

(***************************************************************************)
(* C6: whenever the caller's use of a handle of maybe_gzip_open has ended,  *)
(* by leaving the with-block (running to its end, a return, an exception)  *)
(* or by dropping the handle, the underlying file and the gzip state are    *)
(* released, they were released exactly once, and every further close left *)
(* that so and raised no error. The code breaks this: close() on the handle *)
(* of the gzip branch raises AttributeError, and a dropped handle is left   *)
(* to the garbage collector.                                               *)
(***************************************************************************)
C6_ReleasedOnceAtScopeEnd ==
    (called = "maybe_gzip_open" /\ pc \in {"ended", "dropped"}) =>
        /\ ~fdOpen
        /\ ~codecOpen
        /\ releases = 1
        /\ closeErrors = 0

(***************************************************************************)
(* C7: for a file of at least 4 bytes is_big_wig returns True when its     *)
(* first 4 bytes are 0x888FFC26 in little-endian or in big-endian order    *)
(* and False for every other 4-byte prefix; later bytes play no part.      *)
(***************************************************************************)
SignatureLittleEndian == <<38, 252, 143, 136>>     \* 26 FC 8F 88
SignatureBigEndian == <<136, 143, 252, 38>>        \* 88 8F FC 26

WigCalled == wigResult \notin {"idle", "pending"}

C7_SignatureInEitherByteOrder ==
    (WigCalled /\ Len(wigFile) >= 4) =>
        /\ wigResult \in {"True", "False"}
        /\ wigResult = "True" <=>
              SubSeq(wigFile, 1, 4) \in {SignatureLittleEndian, SignatureBigEndian}
        /\ SubSeq(wigFile, 1, 4) = <<0, 0, 0, 0>> => wigResult = "False"

C7_Witness ==
    /\ WigCalled
    /\ Len(wigFile) > 4
    /\ SubSeq(wigFile, 1, 4) = SignatureBigEndian
    /\ wigResult = "True"

(***************************************************************************)
(* C8: for a file of fewer than 4 bytes is_big_wig fails with IOError.     *)
(* The code breaks this: struct.unpack raises struct.error, which is no    *)
(* IOError.                                                                *)
(***************************************************************************)
C8_ShortFileIsIOError ==
    (WigCalled /\ Len(wigFile) < 4) => wigResult = "IOError"

(***************************************************************************)
(* C9: with the count threaded from call to call, starting undefined, a    *)
(* call of init_num_obs returns the second dimension of the array when     *)
(* the count it is given is undefined or equal to it, and fails, the       *)
(* count kept, when the count is defined and differs; so a defined count   *)
(* is the same after every call.                                           *)
(***************************************************************************)
C9_CountNeverChanges ==
    obsCalls > 0 =>
        /\ (obsArg = None \/ obsArg = Some(obsShape[2])) =>
               (obsOutcome = "returned" /\ num_obs = Some(obsShape[2]))
        /\ (obsArg # None /\ obsArg # Some(obsShape[2])) =>
               (obsOutcome = "AssertionError" /\ num_obs = obsArg)
        /\ obsArg # None => num_obs = obsArg

C9_Witness ==
    /\ obsCalls = 3
    /\ obsArg # None
    /\ obsOutcome = "AssertionError"
    /\ obsShape[2] # obsArg[1]

(***************************************************************************)
(* C10: for func min or max and a current extremum array as long as the    *)
(* batch's rows, new_extrema returns at every position func of the         *)
(* current extremum and of all the batch's values at that position; with   *)
(* max, the extremum [1, 5, 3] and the batch [4, 0, 6] give [4, 5, 6].     *)
(***************************************************************************)
IsExtremumOf(func, v, S) ==
    /\ v \in S
    /\ \A w \in S : IF func = "min" THEN v <= w ELSE v >= w

C10_ElementwiseExtremum ==
    /\ extResult # None =>
          /\ Len(extResult[1]) = Len(extrema)
          /\ \A i \in 1..Len(extrema) :
                IsExtremumOf(extFunc, extResult[1][i],
                    {extrema[i]} \cup {extData[r][i] : r \in 1..Len(extData)})
    /\ new_extrema("max", << <<4, 0, 6>> >>, <<1, 5, 3>>) = <<4, 5, 6>>

C10_Witness ==
    /\ extResult # None
    /\ extFunc = "max"
    /\ Len(extrema) = 2
    /\ Len(extData) = 2
    /\ extResult[1] # extrema
    /\ extResult[1] # extData[1]
    /\ extResult[1] # extData[2]


\* The first fold of a session has been attempted: both extrema were None
\* when new_extrema was called.
FirstFoldDone == component = "fold" /\ folds = 1

\* C11: the first call of new_extrema, made with a None extremum, succeeds
\* for min and for max, and its result is exactly the batch's own reduction
\* over its rows.
C11_FirstCallGivesBatchReduction ==
    FirstFoldDone =>
        /\ foldMinCall = "returned" /\ foldMaxCall = "returned"
        /\ foldMin # None /\ foldMax # None
        /\ Len(foldMin[1]) = Len(foldBatch[1])
        /\ Len(foldMax[1]) = Len(foldBatch[1])
        /\ \A i \in 1..Len(foldBatch[1]) :
              LET column == {foldBatch[r][i] : r \in 1..Len(foldBatch)}
              IN /\ IsExtremumOf("min", foldMin[1][i], column)
                 /\ IsExtremumOf("max", foldMax[1][i], column)

\* C12: starting from the undefined pair, after every fold of a batch into
\* the running minimum and the running maximum both arrays are defined and
\* the minimum is at most the maximum at every position.
C12_RunningMinAtMostRunningMax ==
    (component = "fold" /\ folds >= 1) =>
        /\ foldMinCall = "returned" /\ foldMaxCall = "returned"
        /\ foldMin # None /\ foldMax # None
        /\ Len(foldMin[1]) = Len(foldMax[1])
        /\ \A i \in 1..Len(foldMin[1]) : foldMin[1][i] <= foldMax[1][i]

\* C13: on an empty stream (no line at all) the first call of next signals
\* the end of the sequence, and so does every later call: no record is
\* yielded and no other error is raised.
C13_EmptyStreamEndsAtOnce ==
    (component = "LightIterator" /\ handle = <<>>) =>
        \A k \in 1..Len(results) : results[k].kind = "StopIteration"

C13_Witness ==
    /\ component = "LightIterator" /\ handle = <<>>
    /\ Len(results) >= 2
    /\ results[1].kind = "StopIteration"

(***************************************************************************)
(* Record framing, stated on the stream alone: the marker line of a        *)
(* returned record, the lines that follow it, and where they end.          *)
(***************************************************************************)

\* The longest prefix of s that does not end with a whitespace character.
TrimTrailing(s) ==
    LET ends == {n \in 0..Len(s) : n = 0 \/ s[n] \notin Whitespace}
        last == CHOOSE n \in ends : \A o \in ends : o <= n
    IN SubSeq(s, 1, last)

\* The lines i..j of h, each without its trailing whitespace, one after the
\* other with nothing in between.
RECURSIVE Concatenated(_, _, _)
Concatenated(h, i, j) ==
    IF i > j THEN <<>> ELSE TrimTrailing(h[i]) \o Concatenated(h, i + 1, j)

IsRecord(k) == k \in 1..Len(results) /\ results[k].kind = "record"

\* The marker line of the record call k returned: the last marker line before
\* the line at which the call stopped reading.
MarkersBefore(k) == {m \in 1..(results[k].to - 1) : IsMarker(handle[m])}
RecordMarker(k) == CHOOSE m \in MarkersBefore(k) : \A o \in MarkersBefore(k) : o <= m

\* The first line after marker line m that satisfies Ends, or one past the
\* end of the stream.
FirstAfter(h, m, Ends(_)) ==
    LET stops == {j \in (m + 1)..Len(h) : Ends(h[j])} \cup {Len(h) + 1}
    IN CHOOSE j \in stops : \A o \in stops : j <= o

\* The body runs to the next marker line or the end of the stream.
NextMarkerOrEnd(h, m) == FirstAfter(h, m, IsMarker)

\* C14: every returned record's body is exactly the concatenation,
\* in stream order and without separators, of the trailing-whitespace-stripped
\* non-marker lines between its marker line and the next marker line or the
\* end of the stream; no body line is dropped, duplicated or given to
\* another record.
C14_BodyRunsToNextMarkerOrEnd ==
    component = "LightIterator" =>
        \A k \in 1..Len(results) : IsRecord(k) =>
            /\ MarkersBefore(k) # {}
            /\ results[k].body =
                  Concatenated(handle, RecordMarker(k) + 1,
                               NextMarkerOrEnd(handle, RecordMarker(k)) - 1)
            /\ \A j \in 1..(k - 1) : IsRecord(j) => RecordMarker(j) < RecordMarker(k)

\* The text after the sigil on the marker line of the record call k returned.
AfterSigil(k) == Tail(handle[RecordMarker(k)])

BeginsWithWhitespace(s) == s # <<>> /\ Head(s) \in Whitespace
EndsWithWhitespace(s) == s # <<>> /\ s[Len(s)] \in Whitespace

\* C15 as stated: the label of every returned record is the text after the
\* sigil on its marker line with the whitespace on both sides removed; a
\* returned label never begins or ends with a whitespace character.
C15_LabelTrimmedOnBothSides ==
    component = "LightIterator" =>
        \A k \in 1..Len(results) : IsRecord(k) =>
            /\ MarkersBefore(k) # {}
            /\ results[k].label = strip(AfterSigil(k))
            /\ ~BeginsWithWhitespace(results[k].label)
            /\ ~EndsWithWhitespace(results[k].label)

\* C15 as the code has it: the label of every returned record is the text
\* after the sigil on its marker line with the trailing whitespace removed
\* and the leading whitespace kept; a returned label never ends with a
\* whitespace character.
C15_LabelTrimmedAtEnd ==
    component = "LightIterator" =>
        \A k \in 1..Len(results) : IsRecord(k) =>
            /\ MarkersBefore(k) # {}
            /\ results[k].label = TrimTrailing(AfterSigil(k))
            /\ ~EndsWithWhitespace(results[k].label)

\* A record has been returned whose marker line has whitespace right after
\* the sigil and whitespace before its newline: the label begins with the
\* first and is without the second.
C15_Witness ==
    /\ component = "LightIterator"
    /\ \E k \in 1..Len(results) :
          /\ IsRecord(k)
          /\ BeginsWithWhitespace(AfterSigil(k))
          /\ Len(AfterSigil(k)) >= 4
          /\ AfterSigil(k)[Len(AfterSigil(k)) - 1] \in Whitespace
          /\ BeginsWithWhitespace(results[k].label)
          /\ Len(results[k].label) = Len(AfterSigil(k)) - 2

====
